---- MODULE Spec2Model ----
(***************************************************************************)
(* Order creation of the retail application: the storage layer             *)
(* (server/storage.ts: DatabaseStorage on a PostgreSQL transaction, and    *)
(* MemStorage on in-process maps) and the routes that call it              *)
(* (server/routes.ts).                                                     *)
(*                                                                         *)
(* DatabaseStorage.createOrder awaits between its statements, so its       *)
(* statements are separate steps that interleave with other requests; the  *)
(* transaction runs at PostgreSQL's default isolation (read committed):    *)
(* a SELECT sees the committed rows plus the transaction's own writes, an  *)
(* UPDATE takes the row's lock until commit or rollback, and sequences     *)
(* (serial ids) are not rolled back.  MemStorage.createOrder has no await  *)
(* in its body: it is one step.                                            *)
(***************************************************************************)
EXTENDS Integers, Sequences, FiniteSets, TLC

\* ------------------------------------------------------------------ bounds
\* Requests to POST /api/orders, line-item ids handed out, product admin requests.
MaxCalls == 2
MaxItemRows == 2
MaxAdmin == 1
\* The largest quantity the + button of the cart is pressed up to.
MaxQty == 3
\* Calls of initializeData.
MaxInitCalls == 3
\* Calls made on the two storage classes side by side.
MaxPairOps == 2

\* ------------------------------------------------------------------ inputs
Backends == {"db", "mem"}
\* Two requests to POST /api/orders can be in flight at a time.
Slots == {1, 2}
ProductIds == {1, 2}
Customers == {1}
HeaderCustomers == {1, 2}
HeaderStatuses == {"absent", "shipped"}
Totals == {10}
Quantities == {-1, 3}
UnitPrices == {5}
ClientOrderIds == {7}
StockDeltas == {-2}
NewStocks == {1}
NewPrices == {6}
InitProducts == { (1 :> [stock |-> 5, price |-> 5]) }
\* The server processes that start against the database, and the rows of
\* the sample data (storage.ts:258-352).
Starters == {1, 2}
SampleUsers == 1
SampleCategories == 4
SampleProducts == 5
SampleCustomers == 2
\* The fields a PUT /api/products/:id sets.
ProductPatches ==
    {[field |-> "stock", value |-> v] : v \in NewStocks}
        \cup {[field |-> "price", value |-> v] : v \in NewPrices}

\* The statuses the client knows (client/src/lib/types.ts:23).
OrderStatuses == {"pending", "processing", "completed", "cancelled"}
\* The status a PUT /api/orders/:id/status carries.
NewStatuses == {"completed", "shipped"}

\* A JSON value of a request body that the schema gives a type: its type and,
\* for a number or a numeric string, its value.
Num(n) == [t |-> "number", v |-> n]
Str(n) == [t |-> "string", v |-> n]
RawTotals == {Str(n) : n \in Totals} \cup {Num(n) : n \in Totals}
RawQuantities == {Num(n) : n \in Quantities} \cup {Str(3)}

\* The products the point-of-sale page lists, and the quantities its cart
\* handler can be called with.
CartProducts == {[id |-> p, price |-> Str(5)] : p \in ProductIds}
CartQuantities == (-1)..MaxQty

\* InsertOrder and InsertOrderItem, as createOrder takes them.
Headers == [customerId : HeaderCustomers, status : HeaderStatuses, total : Totals]
Items == [productId : ProductIds, quantity : Quantities, unitPrice : UnitPrices]
ItemLists(n) == UNION { [1..k -> Items] : k \in 0..n }

\* req.body.order and the elements of req.body.items.
RawHeaders == [customerId : HeaderCustomers, status : HeaderStatuses, total : RawTotals]
RawItems == [productId : ProductIds, quantity : RawQuantities, unitPrice : UnitPrices,
             orderId : ClientOrderIds]
RawItemLists(n) == UNION { [1..k -> RawItems] : k \in 0..n }
ItemsValues(n) == { [kind |-> "missing", list |-> <<>>], [kind |-> "object", list |-> <<>>] }
                  \cup { [kind |-> "array", list |-> l] : l \in RawItemLists(n) }
Bodies(n) == [order : RawHeaders, items : ItemsValues(n)]

VARIABLES backend, products, productSeq, orders, orderItems, orderSeq, itemSeq,
          req, clean, stockOp, statusOp, calls, admin, cart, sent, seed, pair

vars == <<backend, products, productSeq, orders, orderItems, orderSeq, itemSeq,
          req, clean, stockOp, statusOp, calls, admin, cart, sent, seed, pair>>
\* The sample data and the two storage classes run side by side, which no
\* request touches.
apart == <<seed, pair>>
\* The state of the point-of-sale page, which no server action touches.
aside == <<cart, sent, apart>>
store == <<products, orders, orderItems>>
\* The state of the server, which no handler of the page touches directly.
server == <<backend, products, productSeq, orders, orderItems, orderSeq, itemSeq,
            req, clean, stockOp, statusOp, calls, admin>>

\* ----------------------------------------------------------------- helpers
Max(a, b) == IF a >= b THEN a ELSE b

NoHeader == [customerId |-> 0, status |-> "absent", total |-> 0]
NoRead == [found |-> FALSE, stock |-> 0]
NoWrites == [p \in {} |-> 0]
NoRows == [i \in {} |-> 0]
\* The body of an answer: the order row createOrder returned, its id, and the
\* rows getOrderItems returned.
NoResp == [order |-> NoHeader, id |-> 0, items |-> NoRows]

\* A request slot: n numbers the request, kind is the items value it carried,
\* at is the statement a failed transaction failed at.
IdleReq == [pc |-> "idle", n |-> 0, via |-> "none", kind |-> "none", order |-> NoHeader,
            items |-> <<>>, orderId |-> 0, firstItem |-> 0, idx |-> 0, read |-> NoRead,
            writes |-> NoWrites, status |-> 0, outcome |-> "none", at |-> "none",
            resp |-> NoResp]
IdleStockOp == [pc |-> "idle", id |-> 0, delta |-> 0, stock |-> 0]
\* The last PUT /api/orders/:id/status: n numbers it, code is its answer.
NoStatusOp == [n |-> 0, id |-> 0, status |-> "none", code |-> 0]

\* The rows of the sample data in users, categories, products and customers,
\* the calls of initializeData so far, and where each server process is in
\* its call (k: categories it has inserted).
NoSeed == [users |-> 0, categories |-> 0, products |-> 0, customers |-> 0, runs |-> 0,
           pc |-> [i \in Starters |-> "idle"], k |-> [i \in Starters |-> 0]]

\* The request's transaction is open.
InProgress(r) == r.pc \in {"items", "select", "update"}
\* The request has not been answered yet.
Busy(r) == InProgress(r) \/ r.pc = "fetch"

\* A row of products is locked by a transaction that updated it and has not ended.
LockedBy(t, p) == InProgress(req[t]) /\ p \in DOMAIN req[t].writes
LockedByOther(t, p) == \E u \in Slots \ {t} : LockedBy(u, p)
Locked(p) == \E u \in Slots : LockedBy(u, p)

\* clean[t]: no other request has changed the committed products since
\* transaction t began (history, read by no action).
Cleaned(t) == [clean EXCEPT ![t] = TRUE]
Dirtied(t, changed) ==
    [u \in Slots |-> IF u = t THEN TRUE
                     ELSE IF changed /\ InProgress(req[u]) THEN FALSE ELSE clean[u]]

\* ------------------------------------------------------------------- route
\* The guard without its length test.
ItemsRejectedNoLength(items) == items.kind = "missing" \/ items.kind # "array"

\* routes.ts:286  if (!items || !Array.isArray(items) || items.length === 0)
ItemsRejected(items) ==
    items.kind = "missing" \/ items.kind # "array" \/ Len(items.list) = 0

\* routes.ts:290  insertOrderSchema.parse(order): total is a numeric column,
\* which the schema takes as a string; status is optional.
OrderParses(order) == order.total.t = "string"
ParseOrder(order) ==
    [customerId |-> order.customerId, status |-> order.status, total |-> order.total.v]

\* routes.ts:296  insertOrderItemSchema.omit({ orderId: true }).parse(...):
\* quantity is an integer column, any number to the schema.
ItemParses(item) == item.quantity.t = "number"
\* routes.ts:295-296: orderId is removed, the other fields are kept.
ParseItem(item) ==
    [productId |-> item.productId, quantity |-> item.quantity.v, unitPrice |-> item.unitPrice]
ParseItems(list) == [i \in 1..Len(list) |-> ParseItem(list[i])]

\* What the route finds wrong with a body whose items are a non-empty array:
\* the header is parsed first, then the items one after the other.
SchemaFailure(body) ==
    LET list == body.items.list
        bad == {i \in 1..Len(list) : ~ItemParses(list[i])} IN
    IF ~OrderParses(body.order) THEN "badorder"
    ELSE IF bad = {} THEN "none"
    ELSE IF bad = 1..Len(list) THEN "baditems"
    ELSE "baditem"

\* Error handlers that take every error for a validation error, or for none.
HandleAnyAsZodError(zod) == 400
HandleAnyAsServerError(zod) == 500

\* routes.ts:23-29  handleZodError: 400 for a ZodError, 500 for any other error.
HandleZodError(zod) == IF zod THEN 400 ELSE 500

\* ----------------------------------------------------------------- storage
\* An id generator that hands out the same id again.
StuckOrderSeq(n) == n
StuckItemSeq(n, k) == n

\* storage.ts:671 this.orderId++ / schema.ts:56 serial("id")
NextOrderSeq(n) == n + 1
\* storage.ts:681 this.orderItemId++ per item / schema.ts:73 serial("id")
NextItemSeq(n, k) == n + k

\* An order row whose total is left to be computed later.
DbOrderRowTotalUnset(order) ==
    [customerId |-> order.customerId,
     status |-> IF order.status = "absent" THEN "pending" ELSE order.status,
     total |-> 0]

\* schema.ts:59  status defaults to 'pending' in the database.
DbOrderRow(order) ==
    [customerId |-> order.customerId,
     status |-> IF order.status = "absent" THEN "pending" ELSE order.status,
     total |-> order.total]
\* storage.ts:672-676  { ...order, id, orderDate }: no default is applied.
MemOrderRow(order) ==
    [customerId |-> order.customerId, status |-> order.status, total |-> order.total]

\* storage.ts:203-209 / 680-690  the line items get the order's id and ids of
\* their own, in the order of the list.
ItemRows(id, first, list) ==
    [k \in first..(first + Len(list) - 1) |->
        [orderId |-> id, productId |-> list[k - first + 1].productId,
         quantity |-> list[k - first + 1].quantity,
         unitPrice |-> list[k - first + 1].unitPrice]]

\* The decrement without its floor.
UnclampedStock(stock, quantity) == stock - quantity

\* storage.ts:220  Math.max(0, product.stock - item.quantity)
DbNewStock(stock, quantity) == Max(0, stock - quantity)
\* storage.ts:686  Math.max(0, product.stock - item.quantity)
MemNewStock(stock, quantity) == Max(0, stock - quantity)

\* A stock update that is not restricted to the product of the line item.
MemApplyItemAll(prods, item) ==
    [p \in DOMAIN prods |-> [prods[p] EXCEPT !.stock = MemNewStock(@, item.quantity)]]

\* storage.ts:684-688  the stock of the line item's product, if there is one.
MemApplyItem(prods, item) ==
    IF item.productId \in DOMAIN prods
    THEN [prods EXCEPT ![item.productId].stock = MemNewStock(@, item.quantity)]
    ELSE prods
RECURSIVE MemApplyItems(_, _)
MemApplyItems(prods, list) ==
    IF list = <<>> THEN prods
    ELSE MemApplyItems(MemApplyItem(prods, Head(list)), Tail(list))

\* A store with the given products and no orders: the constructor of
\* MemStorage (storage.ts:425-442) or the tables of schema.ts.
NewStore(prods) ==
    [products |-> prods, orders |-> [o \in {} |-> NoHeader], orderItems |-> [i \in {} |-> 0],
     orderSeq |-> 1, itemSeq |-> 1]

Init ==
    /\ backend \in Backends
    /\ products \in InitProducts
    /\ productSeq = Cardinality(DOMAIN products) + 1
    /\ orders = [o \in {} |-> NoHeader]
    /\ orderItems = [i \in {} |-> 0]
    /\ orderSeq = 1
    /\ itemSeq = 1
    /\ req = [t \in Slots |-> IdleReq]
    /\ clean = [t \in Slots |-> TRUE]
    /\ stockOp = IdleStockOp
    /\ statusOp = NoStatusOp
    /\ cart = <<>>
    /\ sent = <<>>
    /\ seed = NoSeed
    /\ pair = [mem |-> NewStore(products), db |-> NewStore(products),
               out |-> [mem |-> "none", db |-> "none"], n |-> 0]
    /\ calls = 0
    /\ admin = 0

\* Line-item ids not yet handed out or promised to a transaction in flight.
RowsLeft ==
    LET Pending(t) == IF req[t].pc = "items" THEN Len(req[t].items) ELSE 0
        RECURSIVE Sum(_)
        Sum(S) == IF S = {} THEN 0 ELSE LET t == CHOOSE x \in S : TRUE IN Pending(t) + Sum(S \ {t})
    IN MaxItemRows - (itemSeq - 1) - Sum(Slots)

\* A request is taken by the first slot that has none in flight.
NextSlot(t) == ~Busy(req[t]) /\ \A u \in Slots : u < t => Busy(req[u])

\* ------------------------------------------------------------ createOrder
\* A call of createOrder as a slot holds it.
NewReq(n, via, kind, order, list) ==
    [IdleReq EXCEPT !.n = n, !.via = via, !.kind = kind, !.order = order, !.items = list]

\* The HTTP answer of the route; a direct caller of the storage gets none.
Code(via, http) == IF via = "api" THEN http ELSE 0

\* A query that returns the line items of every order.
GetAllOrderItems(rows, id) == rows

\* storage.ts:242-247 / 708-710  getOrderItems: the rows whose orderId is id.
GetOrderItems(rows, id) ==
    [i \in {j \in DOMAIN rows : rows[j].orderId = id} |-> rows[i]]

\* createOrder has returned the order row.  A direct caller has it; the route
\* goes on to getOrderItems (routes.ts:300).  A call that returned keeps what
\* it persisted; a call that threw keeps the id it had drawn and the statement
\* it failed at.
Returned(r, row) ==
    [r EXCEPT !.pc = IF r.via = "api" THEN "fetch" ELSE "done",
              !.idx = 0, !.read = NoRead, !.writes = NoWrites, !.outcome = "returned",
              !.resp = [NoResp EXCEPT !.order = row, !.id = r.orderId]]
\* routes.ts:300-302  getOrderItems has returned rows: 201 with the order and them.
Answered(r, rows) ==
    [r EXCEPT !.pc = "done", !.status = 201, !.resp.items = GetOrderItems(rows, r.orderId)]
Threw(r, code, at) ==
    [IdleReq EXCEPT !.pc = "done", !.n = r.n, !.via = r.via, !.kind = r.kind,
                    !.orderId = r.orderId, !.idx = r.idx, !.status = code,
                    !.outcome = "threw", !.at = at]

\* storage.ts:693  this.orderItems.set(id, ...) replaces the list kept under id.
MemOtherItems(id) ==
    [i \in {j \in DOMAIN orderItems : orderItems[j].orderId # id} |-> orderItems[i]]

\* storage.ts:670-696  MemStorage.createOrder: no await, one step; no request
\* runs between it and the route's getOrderItems (routes.ts:299-302), whose
\* promises are already resolved.
MemCreateOrder(t, r) ==
    LET rows == ItemRows(orderSeq, itemSeq, r.items) @@ MemOtherItems(orderSeq)
        back == Returned([r EXCEPT !.orderId = orderSeq, !.firstItem = itemSeq],
                         MemOrderRow(r.order)) IN
    /\ orders' = (orderSeq :> MemOrderRow(r.order)) @@ orders
    /\ orderSeq' = NextOrderSeq(orderSeq)
    /\ orderItems' = rows
    /\ itemSeq' = NextItemSeq(itemSeq, Len(r.items))
    /\ products' = MemApplyItems(products, r.items)
    /\ req' = [req EXCEPT ![t] = IF r.via = "api" THEN Answered(back, rows) ELSE back]
    /\ clean' = Cleaned(t)

\* customer_id references customers.id (schema.ts:57).
DbOrderInsertFails(order) == order.customerId \notin Customers
\* order_items.product_id references products.id (schema.ts:75).
DbItemsInsertFail(list) == \E i \in 1..Len(list) : list[i].productId \notin DOMAIN products

\* The statements issued outside the transaction: what they wrote stays.
RollbackStoreNoTx(t) ==
    LET r == req[t] IN
    [products |-> [p \in DOMAIN products |->
                      IF p \in DOMAIN r.writes THEN [products[p] EXCEPT !.stock = r.writes[p]]
                      ELSE products[p]],
     orders |-> (r.orderId :> DbOrderRow(r.order)) @@ orders,
     orderItems |-> IF r.pc = "items" THEN orderItems
                    ELSE ItemRows(r.orderId, r.firstItem, r.items) @@ orderItems]

\* What the store holds once transaction t has been rolled back.
RollbackStore(t) == [products |-> products, orders |-> orders, orderItems |-> orderItems]

\* A commit that keeps the order row and loses the line items.
CommitStoreOrderOnly(t) ==
    LET r == req[t] IN
    [products |-> products,
     orders |-> (r.orderId :> DbOrderRow(r.order)) @@ orders,
     orderItems |-> orderItems]

\* What the store holds once transaction t has committed.
CommitStore(t) ==
    LET r == req[t] IN
    [products |-> [p \in DOMAIN products |->
                      IF p \in DOMAIN r.writes THEN [products[p] EXCEPT !.stock = r.writes[p]]
                      ELSE products[p]],
     orders |-> (r.orderId :> DbOrderRow(r.order)) @@ orders,
     orderItems |-> ItemRows(r.orderId, r.firstItem, r.items) @@ orderItems]

\* The transaction is rolled back and the error reaches the route's catch
\* (routes.ts:303-305, handleZodError: not a ZodError, so 500).
DbAbort(t) ==
    LET s == RollbackStore(t) IN
    /\ products' = s.products
    /\ orders' = s.orders
    /\ orderItems' = s.orderItems
    /\ req' = [req EXCEPT ![t] = Threw(@, Code(@.via, HandleZodError(FALSE)), @.pc)]
    /\ clean' = Dirtied(t, s.products # products)

\* storage.ts:198-200  db.transaction opens the transaction and the order row
\* is inserted in it.  The id comes from the sequence, which keeps its value
\* when the transaction is rolled back.
DbBegin(t, r) ==
    /\ orderSeq' = NextOrderSeq(orderSeq)
    /\ req' = [req EXCEPT ![t] =
                 IF DbOrderInsertFails(r.order)
                 THEN Threw([r EXCEPT !.orderId = orderSeq],
                            Code(r.via, HandleZodError(FALSE)), "order")
                 ELSE [r EXCEPT !.pc = "items", !.orderId = orderSeq]]
    /\ clean' = Cleaned(t)
    /\ UNCHANGED <<products, orders, orderItems, itemSeq>>

\* storage.ts:203-210  the batch insert of the line items, skipped for no items.
DbInsertItems(t) ==
    /\ backend = "db"
    /\ req[t].pc = "items"
    /\ itemSeq' = NextItemSeq(itemSeq, Len(req[t].items))
    /\ IF DbItemsInsertFail(req[t].items)
       THEN DbAbort(t)
       ELSE /\ req' = [req EXCEPT ![t].pc = "select", ![t].firstItem = itemSeq, ![t].idx = 1]
            /\ UNCHANGED <<products, orders, orderItems, clean>>
    /\ UNCHANGED <<aside, statusOp>>
    /\ UNCHANGED <<backend, productSeq, orderSeq, stockOp, calls, admin>>

\* The SELECT issued on the connection pool instead of the transaction: it
\* sees the committed row only.
DbSelectCommitted(t) ==
    LET r == req[t]
        p == r.items[r.idx].productId IN
    /\ backend = "db"
    /\ r.pc = "select"
    /\ r.idx <= Len(r.items)
    /\ req' = [req EXCEPT ![t] =
                 IF p \in DOMAIN products
                 THEN [r EXCEPT !.pc = "update",
                                !.read = [found |-> TRUE, stock |-> products[p].stock]]
                 ELSE [r EXCEPT !.idx = @ + 1]]
    /\ UNCHANGED <<aside, statusOp>>
    /\ UNCHANGED <<backend, products, productSeq, orders, orderItems, orderSeq, itemSeq,
                   clean, stockOp, calls, admin>>

\* storage.ts:214-219  the SELECT of the item's product: the transaction's own
\* write if it has one, else the committed row.
DbSelectProduct(t) ==
    LET r == req[t]
        p == r.items[r.idx].productId IN
    /\ backend = "db"
    /\ r.pc = "select"
    /\ r.idx <= Len(r.items)
    /\ req' = [req EXCEPT ![t] =
                 IF p \in DOMAIN r.writes
                 THEN [r EXCEPT !.pc = "update", !.read = [found |-> TRUE, stock |-> r.writes[p]]]
                 ELSE IF p \in DOMAIN products
                 THEN [r EXCEPT !.pc = "update",
                                !.read = [found |-> TRUE, stock |-> products[p].stock]]
                 ELSE [r EXCEPT !.idx = @ + 1]]
    /\ UNCHANGED <<aside, statusOp>>
    /\ UNCHANGED <<backend, products, productSeq, orders, orderItems, orderSeq, itemSeq,
                   clean, stockOp, calls, admin>>

\* storage.ts:220-224  the UPDATE of the stock; it waits for the row's lock.
DbUpdateStock(t) ==
    LET r == req[t]
        p == r.items[r.idx].productId
        q == r.items[r.idx].quantity IN
    /\ backend = "db"
    /\ r.pc = "update"
    /\ ~LockedByOther(t, p)
    /\ req' = [req EXCEPT ![t] =
                 [r EXCEPT !.pc = "select", !.idx = @ + 1, !.read = NoRead,
                           !.writes = (p :> DbNewStock(r.read.stock, q)) @@ @]]
    /\ UNCHANGED <<aside, statusOp>>
    /\ UNCHANGED <<backend, products, productSeq, orders, orderItems, orderSeq, itemSeq,
                   clean, stockOp, calls, admin>>

\* storage.ts:228-229  the callback returns the row the insert returned and
\* the transaction commits.
DbCommit(t) ==
    LET r == req[t]
        s == CommitStore(t) IN
    /\ backend = "db"
    /\ r.pc = "select"
    /\ r.idx > Len(r.items)
    /\ products' = s.products
    /\ orders' = s.orders
    /\ orderItems' = s.orderItems
    /\ req' = [req EXCEPT ![t] = Returned(r, DbOrderRow(r.order))]
    /\ clean' = Dirtied(t, s.products # products)
    /\ UNCHANGED <<aside, statusOp>>
    /\ UNCHANGED <<backend, productSeq, orderSeq, itemSeq, stockOp, calls, admin>>

\* routes.ts:300-302, storage.ts:242-247  the route's getOrderItems, a
\* statement of its own after the commit, and the 201 answer.
DbGetOrderItems(t) ==
    /\ backend = "db"
    /\ req[t].pc = "fetch"
    /\ req' = [req EXCEPT ![t] = Answered(@, orderItems)]
    /\ UNCHANGED <<aside, statusOp>>
    /\ UNCHANGED <<backend, products, productSeq, orders, orderItems, orderSeq, itemSeq,
                   clean, stockOp, calls, admin>>

\* routes.ts:300-305  getOrderItems fails: the catch answers through
\* handleZodError, the order stays committed.
DbGetOrderItemsFails(t) ==
    /\ backend = "db"
    /\ req[t].pc = "fetch"
    /\ req' = [req EXCEPT ![t].pc = "done", ![t].status = HandleZodError(FALSE)]
    /\ UNCHANGED <<aside, statusOp>>
    /\ UNCHANGED <<backend, products, productSeq, orders, orderItems, orderSeq, itemSeq,
                   clean, stockOp, calls, admin>>

\* Transaction t waits for a row that u has updated.
WaitsFor(t, u) ==
    /\ req[t].pc = "update"
    /\ LockedBy(u, req[t].items[req[t].idx].productId)

\* A database that never finds a deadlock.
NeverDeadlocked(t) == FALSE

\* t and another transaction wait for each other's rows.
Deadlocked(t) == \E u \in Slots \ {t} : WaitsFor(t, u) /\ WaitsFor(u, t)

\* storage.ts:221-224  the UPDATE of a transaction in a deadlock is rejected
\* by PostgreSQL's deadlock detection: db.transaction rolls back and rethrows.
\* As a failure of the statement this step is one of those of DbFail.
DbDeadlock(t) ==
    /\ backend = "db"
    /\ Deadlocked(t)
    /\ req' = [req EXCEPT ![t] = Threw(@, Code(@.via, HandleZodError(FALSE)), "deadlock")]
    /\ clean' = Dirtied(t, FALSE)
    /\ UNCHANGED <<aside, statusOp>>
    /\ UNCHANGED <<backend, products, productSeq, orders, orderItems, orderSeq, itemSeq,
                   stockOp, calls, admin>>

\* Any statement of the transaction can fail (the connection is lost, the
\* statement is rejected): db.transaction rolls back and rethrows.
DbFail(t) ==
    /\ backend = "db"
    /\ InProgress(req[t])
    /\ DbAbort(t)
    /\ UNCHANGED <<aside, statusOp>>
    /\ UNCHANGED <<backend, productSeq, orderSeq, itemSeq, stockOp, calls, admin>>

\* The items value of a request body, as the route finds it.
Classify(items) ==
    IF items.kind # "array" THEN items.kind
    ELSE IF items.list = <<>> THEN "empty" ELSE "array"

\* routes.ts:282-306  POST /api/orders
PostOrders(t, body) ==
    LET n == calls + 1
        kind == Classify(body.items)
        orderData == ParseOrder(body.order)
        itemsData == ParseItems(body.items.list) IN
    /\ NextSlot(t)
    /\ calls < MaxCalls
    /\ calls' = n
    /\ IF ItemsRejected(body.items)
       THEN /\ req' = [req EXCEPT ![t] =
                        [IdleReq EXCEPT !.pc = "done", !.n = n, !.via = "api", !.kind = kind,
                                        !.status = 400]]
            /\ UNCHANGED <<products, orders, orderItems, orderSeq, itemSeq, clean>>
       ELSE IF SchemaFailure(body) # "none"
       THEN /\ req' = [req EXCEPT ![t] =
                        [IdleReq EXCEPT !.pc = "done", !.n = n, !.via = "api",
                                        !.kind = SchemaFailure(body),
                                        !.status = HandleZodError(TRUE)]]
            /\ UNCHANGED <<products, orders, orderItems, orderSeq, itemSeq, clean>>
       ELSE IF backend = "mem"
       THEN MemCreateOrder(t, NewReq(n, "api", kind, orderData, itemsData))
       ELSE DbBegin(t, NewReq(n, "api", kind, orderData, itemsData))
    /\ UNCHANGED <<aside, statusOp>>
    /\ UNCHANGED <<backend, productSeq, stockOp, admin>>

\* IStorage.createOrder called directly, as the interface allows (storage.ts:47).
StorageCreateOrder(t, order, list) ==
    LET n == calls + 1
        kind == IF list = <<>> THEN "empty" ELSE "array" IN
    /\ NextSlot(t)
    /\ calls < MaxCalls
    /\ calls' = n
    /\ IF backend = "mem"
       THEN MemCreateOrder(t, NewReq(n, "core", kind, order, list))
       ELSE DbBegin(t, NewReq(n, "core", kind, order, list))
    /\ UNCHANGED <<aside, statusOp>>
    /\ UNCHANGED <<backend, productSeq, stockOp, admin>>

\* ------------------------------------------------------------ product admin
\* routes.ts:131-139, storage.ts:119-122 / 594-599  createProduct
CreateProduct(s) ==
    /\ admin < MaxAdmin
    /\ productSeq \in ProductIds
    /\ products' = (productSeq :> [stock |-> s, price |-> 5]) @@ products
    /\ productSeq' = productSeq + 1
    /\ clean' = Dirtied(0, TRUE)
    /\ admin' = admin + 1
    /\ UNCHANGED <<aside, statusOp>>
    /\ UNCHANGED <<backend, orders, orderItems, orderSeq, itemSeq, req, stockOp, calls>>

\* routes.ts:141-153, storage.ts:124-131 / 601-608  updateProduct with a stock
\* or a price; in the database the UPDATE waits for the row's lock.
UpdateProduct(id, patch) ==
    /\ admin < MaxAdmin
    /\ id \in DOMAIN products
    /\ ~Locked(id)
    /\ products' = [products EXCEPT ![id] = IF patch.field = "stock"
                                            THEN [@ EXCEPT !.stock = patch.value]
                                            ELSE [@ EXCEPT !.price = patch.value]]
    /\ clean' = Dirtied(0, TRUE)
    /\ admin' = admin + 1
    /\ UNCHANGED <<aside, statusOp>>
    /\ UNCHANGED <<backend, productSeq, orders, orderItems, orderSeq, itemSeq, req, stockOp,
                   calls>>

\* The line items of a committed order or of a transaction that has inserted
\* them refer to the product: its row cannot be deleted (schema.ts:75).
Referenced(id) == \E i \in DOMAIN orderItems : orderItems[i].productId = id
KeyShared(id) ==
    \E t \in Slots :
        /\ req[t].pc \in {"select", "update"}
        /\ \E k \in 1..Len(req[t].items) : req[t].items[k].productId = id

\* A delete that takes the line items of the product with it.
DeleteProductCascade(id) ==
    /\ admin < MaxAdmin
    /\ admin' = admin + 1
    /\ backend = "db" => ~Locked(id) /\ ~KeyShared(id)
    /\ products' = [p \in DOMAIN products \ {id} |-> products[p]]
    /\ orderItems' = [i \in {j \in DOMAIN orderItems : orderItems[j].productId # id} |->
                         orderItems[i]]
    /\ clean' = Dirtied(0, TRUE)
    /\ UNCHANGED <<aside, statusOp>>
    /\ UNCHANGED <<backend, productSeq, orders, orderSeq, itemSeq, req, stockOp, calls>>

\* routes.ts:174-185, storage.ts:148-151 / 622-624  deleteProduct.  MemStorage
\* drops the map entry.  In the database the DELETE waits for the locks on the
\* row and is rejected when a line item refers to it; the route answers 500.
DeleteProduct(id) ==
    /\ admin < MaxAdmin
    /\ admin' = admin + 1
    /\ backend = "db" => ~Locked(id) /\ ~KeyShared(id)
    /\ products' = IF backend = "db" /\ Referenced(id) THEN products
                   ELSE [p \in DOMAIN products \ {id} |-> products[p]]
    /\ clean' = Dirtied(0, TRUE)
    /\ UNCHANGED <<aside, statusOp>>
    /\ UNCHANGED <<backend, productSeq, orders, orderItems, orderSeq, itemSeq,
                   req, stockOp, calls>>

\* storage.ts:138 / 616  stock + quantity
StockSum(stock, quantity) == stock + quantity

\* routes.ts:155-172, storage.ts:610-620  MemStorage.updateProductStock: one step.
MemUpdateProductStock(id, delta) ==
    /\ backend = "mem"
    /\ admin < MaxAdmin
    /\ id \in DOMAIN products
    /\ products' = [products EXCEPT ![id].stock = StockSum(@, delta)]
    /\ stockOp' = [pc |-> "done", id |-> id, delta |-> delta, stock |-> products[id].stock]
    /\ admin' = admin + 1
    /\ UNCHANGED <<aside, statusOp>>
    /\ UNCHANGED <<backend, productSeq, orders, orderItems, orderSeq, itemSeq,
                   req, clean, calls>>

\* storage.ts:135-138  DatabaseStorage.updateProductStock: the SELECT.
DbStockSelect(id, delta) ==
    /\ backend = "db"
    /\ admin < MaxAdmin
    /\ stockOp.pc # "update"
    /\ id \in DOMAIN products
    /\ stockOp' = [pc |-> "update", id |-> id, delta |-> delta, stock |-> products[id].stock]
    /\ admin' = admin + 1
    /\ UNCHANGED <<aside, statusOp>>
    /\ UNCHANGED <<backend, products, productSeq, orders, orderItems, orderSeq, itemSeq, req,
                   clean, calls>>

\* storage.ts:140-145  DatabaseStorage.updateProductStock: the UPDATE, which
\* waits for the row's lock.
DbStockUpdate ==
    /\ backend = "db"
    /\ stockOp.pc = "update"
    /\ ~Locked(stockOp.id)
    /\ products' = IF stockOp.id \in DOMAIN products
                   THEN [products EXCEPT
                           ![stockOp.id].stock = StockSum(stockOp.stock, stockOp.delta)]
                   ELSE products
    /\ clean' = Dirtied(0, TRUE)
    /\ stockOp' = [stockOp EXCEPT !.pc = "done"]
    /\ UNCHANGED <<aside, statusOp>>
    /\ UNCHANGED <<backend, productSeq, orders, orderItems, orderSeq, itemSeq, req, calls,
                   admin>>

\* --------------------------------------------------------------- order admin
\* A row rebuilt from the status alone.
StatusOnly(row, status) == [customerId |-> 0, status |-> status, total |-> 0]

\* storage.ts:235 / 702  .set({ status }) / { ...existingOrder, status }
StatusSet(row, status) == [row EXCEPT !.status = status]

\* An update that leaves a completed or cancelled order as it is.
UpdateOrderStatusGuarded(id, status) ==
    LET final == id \in DOMAIN orders /\ orders[id].status \in {"completed", "cancelled"} IN
    /\ admin < MaxAdmin
    /\ admin' = admin + 1
    /\ orders' = [o \in DOMAIN orders |->
                     IF o = id /\ ~final THEN StatusSet(orders[o], status) ELSE orders[o]]
    /\ statusOp' = [n |-> admin + 1, id |-> id, status |-> status,
                    code |-> IF id \notin DOMAIN orders THEN 404
                             ELSE IF final THEN 409 ELSE 200]
    /\ UNCHANGED <<aside, backend, products, productSeq, orderItems, orderSeq, itemSeq, req,
                   clean, stockOp, calls>>

\* An UPDATE without its WHERE clause: every order gets the status.
UpdateEveryOrderStatus(id, status) ==
    /\ admin < MaxAdmin
    /\ admin' = admin + 1
    /\ orders' = [o \in DOMAIN orders |-> StatusSet(orders[o], status)]
    /\ statusOp' = [n |-> admin + 1, id |-> id, status |-> status,
                    code |-> IF id \in DOMAIN orders THEN 200 ELSE 404]
    /\ UNCHANGED <<aside, backend, products, productSeq, orderItems, orderSeq, itemSeq, req,
                   clean, stockOp, calls>>

\* routes.ts:308-325, storage.ts:232-239 / 698-705  updateOrderStatus: any
\* string is stored; an unknown id is answered 404 and changes nothing.
UpdateOrderStatus(id, status) ==
    /\ admin < MaxAdmin
    /\ admin' = admin + 1
    /\ orders' = [o \in DOMAIN orders |->
                     IF o = id THEN StatusSet(orders[o], status) ELSE orders[o]]
    /\ statusOp' = [n |-> admin + 1, id |-> id, status |-> status,
                    code |-> IF id \in DOMAIN orders THEN 200 ELSE 404]
    /\ UNCHANGED <<aside, backend, products, productSeq, orderItems, orderSeq, itemSeq, req,
                   clean, stockOp, calls>>

\* -------------------------------------------------------------------- next
Post == \E t \in Slots, body \in Bodies(RowsLeft) : PostOrders(t, body)
Direct ==
    \E t \in Slots, o \in Headers, l \in ItemLists(RowsLeft) : StorageCreateOrder(t, o, l)
InsertItems == \E t \in Slots : DbInsertItems(t)
SelectProduct == \E t \in Slots : DbSelectProduct(t)
UpdateStock == \E t \in Slots : DbUpdateStock(t)
Commit == \E t \in Slots : DbCommit(t)
Fail == \E t \in Slots : DbFail(t)
GetItems == \E t \in Slots : DbGetOrderItems(t)
GetItemsFails == \E t \in Slots : DbGetOrderItemsFails(t)
NewProduct == \E s \in NewStocks : CreateProduct(s)
EditStatus == \E id \in 1..MaxCalls, s \in NewStatuses : UpdateOrderStatus(id, s)
EditProduct == \E id \in ProductIds, patch \in ProductPatches : UpdateProduct(id, patch)
RemoveProduct == \E id \in ProductIds : DeleteProduct(id)
MemAdjustStock == \E id \in ProductIds, d \in StockDeltas : MemUpdateProductStock(id, d)
DbAdjustStockSelect == \E id \in ProductIds, d \in StockDeltas : DbStockSelect(id, d)

Tx == InsertItems \/ SelectProduct \/ UpdateStock \/ Commit \/ Fail
Answer == GetItems \/ GetItemsFails
Admin ==
    \/ NewProduct \/ EditProduct \/ RemoveProduct
    \/ MemAdjustStock \/ DbAdjustStockSelect \/ DbStockUpdate
    \/ EditStatus

\* The application: every order is created through POST /api/orders.
Next == Post \/ Tx \/ Answer \/ Admin
Spec == Init /\ [][Next]_vars

\* Orders of two line items of three pieces each, so that two transactions
\* can hold a row each and want the other's.
LiveBodies ==
    { b \in Bodies(2) :
        /\ b.order = [customerId |-> 1, status |-> "absent", total |-> Str(10)]
        /\ b.items.kind = "array"
        /\ Len(b.items.list) = 2
        /\ \A k \in 1..2 : b.items.list[k].quantity = Num(3) }
PostLive == \E t \in Slots, body \in LiveBodies : PostOrders(t, body)
Deadlock == \E t \in Slots : DbDeadlock(t)

\* The database executes the next statement of an open transaction unless
\* the statement waits for a row lock, and rejects a statement in a deadlock.
TxStep(t) ==
    DbInsertItems(t) \/ DbSelectProduct(t) \/ DbUpdateStock(t) \/ DbCommit(t) \/ DbDeadlock(t)
NextLive == PostLive \/ Tx \/ Deadlock \/ Answer \/ NewProduct
SpecLive == Init /\ [][NextLive]_vars /\ \A t \in Slots : WF_vars(TxStep(t))

\* ------------------------------------------- the storage classes side by side
\* Each operation of IStorage as one call that runs alone, on a store st:
\* what the call answers and the store it leaves.
\* storage.ts:670-696  MemStorage.createOrder
SeqMemCreateOrder(st, order, list) ==
    [out |-> "returned",
     st |-> [products |-> MemApplyItems(st.products, list),
             orders |-> (st.orderSeq :> MemOrderRow(order)) @@ st.orders,
             orderItems |-> ItemRows(st.orderSeq, st.itemSeq, list) @@ st.orderItems,
             orderSeq |-> NextOrderSeq(st.orderSeq),
             itemSeq |-> NextItemSeq(st.itemSeq, Len(list))]]

\* storage.ts:213-225  the stock loop of the transaction, which reads what it
\* has written.
DbApplyItem(prods, item) ==
    IF item.productId \in DOMAIN prods
    THEN [prods EXCEPT ![item.productId].stock = DbNewStock(@, item.quantity)]
    ELSE prods
RECURSIVE DbApplyItems(_, _)
DbApplyItems(prods, list) ==
    IF list = <<>> THEN prods
    ELSE DbApplyItems(DbApplyItem(prods, Head(list)), Tail(list))

\* storage.ts:196-230  DatabaseStorage.createOrder: the insert of the order
\* row or of the line items throws on a foreign key (schema.ts:57, 75) and
\* the transaction is rolled back; the ids drawn are not given back.
SeqDbCreateOrder(st, order, list) ==
    IF order.customerId \notin Customers
    THEN [out |-> "threw", st |-> [st EXCEPT !.orderSeq = NextOrderSeq(@)]]
    ELSE IF \E i \in 1..Len(list) : list[i].productId \notin DOMAIN st.products
    THEN [out |-> "threw",
          st |-> [st EXCEPT !.orderSeq = NextOrderSeq(@),
                            !.itemSeq = NextItemSeq(@, Len(list))]]
    ELSE [out |-> "returned",
          st |-> [products |-> DbApplyItems(st.products, list),
                  orders |-> (st.orderSeq :> DbOrderRow(order)) @@ st.orders,
                  orderItems |-> ItemRows(st.orderSeq, st.itemSeq, list) @@ st.orderItems,
                  orderSeq |-> NextOrderSeq(st.orderSeq),
                  itemSeq |-> NextItemSeq(st.itemSeq, Len(list))]]

\* storage.ts:232-239 / 698-705  updateOrderStatus
SeqUpdateOrderStatus(st, id, status) ==
    IF id \in DOMAIN st.orders
    THEN [out |-> "order", st |-> [st EXCEPT !.orders[id] = StatusSet(@, status)]]
    ELSE [out |-> "undefined", st |-> st]

\* storage.ts:133-146 / 610-620  updateProductStock
SeqUpdateProductStock(st, id, delta) ==
    IF id \in DOMAIN st.products
    THEN [out |-> "product", st |-> [st EXCEPT !.products[id].stock = StockSum(@, delta)]]
    ELSE [out |-> "undefined", st |-> st]

\* storage.ts:622-624  MemStorage.deleteProduct: Map.delete.
SeqMemDeleteProduct(st, id) ==
    [out |-> "resolved",
     st |-> [st EXCEPT !.products = [p \in DOMAIN st.products \ {id} |-> st.products[p]]]]

\* storage.ts:148-151  DatabaseStorage.deleteProduct: the DELETE throws while
\* a line item refers to the product (schema.ts:75).
SeqDbDeleteProduct(st, id) ==
    IF \E i \in DOMAIN st.orderItems : st.orderItems[i].productId = id
    THEN [out |-> "threw", st |-> st]
    ELSE [out |-> "resolved",
          st |-> [st EXCEPT !.products = [p \in DOMAIN st.products \ {id} |-> st.products[p]]]]

\* The same call is made on both stores.
Both(m, d) ==
    /\ pair.n < MaxPairOps
    /\ pair' = [mem |-> m.st, db |-> d.st, out |-> [mem |-> m.out, db |-> d.out],
                n |-> pair.n + 1]
    /\ UNCHANGED <<server, cart, sent, seed>>

BothCreateOrder ==
    \E order \in Headers, list \in ItemLists(MaxItemRows) :
        Both(SeqMemCreateOrder(pair.mem, order, list), SeqDbCreateOrder(pair.db, order, list))
BothUpdateOrderStatus ==
    \E id \in 1..MaxPairOps, status \in NewStatuses :
        Both(SeqUpdateOrderStatus(pair.mem, id, status),
             SeqUpdateOrderStatus(pair.db, id, status))
BothUpdateProductStock ==
    \E id \in ProductIds, delta \in StockDeltas :
        Both(SeqUpdateProductStock(pair.mem, id, delta),
             SeqUpdateProductStock(pair.db, id, delta))
BothDeleteProduct ==
    \E id \in ProductIds :
        Both(SeqMemDeleteProduct(pair.mem, id), SeqDbDeleteProduct(pair.db, id))
NextPair ==
    \/ BothCreateOrder
    \/ BothUpdateOrderStatus
    \/ BothUpdateProductStock
    \/ BothDeleteProduct
SpecPair == Init /\ [][NextPair]_vars

\* --------------------------------------------------------------- sample data
\* routes.ts:358-368  registerRoutes calls initializeData when a server
\* process starts; a process that has finished a call can be started again.
InitializeData(i) ==
    /\ seed.runs < MaxInitCalls
    /\ seed.pc[i] \in {"idle", "done", "failed"}
    /\ seed' = [seed EXCEPT !.runs = @ + 1, !.pc[i] = "check", !.k[i] = 0]
    /\ UNCHANGED <<server, cart, sent, pair>>

\* storage.ts:252-255  the call returns when users has a row.
SeedCheck(i) ==
    /\ seed.pc[i] = "check"
    /\ seed' = [seed EXCEPT !.pc[i] = IF seed.users > 0 THEN "done" ELSE "user"]
    /\ UNCHANGED <<server, cart, sent, pair>>

\* storage.ts:258-266  the admin user; users.username is unique (schema.ts:90),
\* so the insert throws when the row is there.
SeedUser(i) ==
    /\ seed.pc[i] = "user"
    /\ seed' = IF seed.users > 0 THEN [seed EXCEPT !.pc[i] = "failed"]
               ELSE [seed EXCEPT !.users = @ + SampleUsers, !.pc[i] = "categories"]
    /\ UNCHANGED <<server, cart, sent, pair>>

\* storage.ts:269-287  the four categories, one insert each.
SeedCategory(i) ==
    /\ seed.pc[i] = "categories"
    /\ seed' = [seed EXCEPT !.categories = @ + 1, !.k[i] = @ + 1,
                            !.pc[i] = IF seed.k[i] + 1 = SampleCategories
                                      THEN "products" ELSE "categories"]
    /\ UNCHANGED <<server, cart, sent, pair>>

\* storage.ts:290-336  the five products in one insert; products.sku is
\* unique (schema.ts:24).
SeedProducts(i) ==
    /\ seed.pc[i] = "products"
    /\ seed' = IF seed.products > 0 THEN [seed EXCEPT !.pc[i] = "failed"]
               ELSE [seed EXCEPT !.products = @ + SampleProducts, !.pc[i] = "customers"]
    /\ UNCHANGED <<server, cart, sent, pair>>

\* storage.ts:339-352  the two customers in one insert; the call returns.
SeedCustomers(i) ==
    /\ seed.pc[i] = "customers"
    /\ seed' = [seed EXCEPT !.customers = @ + SampleCustomers, !.pc[i] = "done"]
    /\ UNCHANGED <<server, cart, sent, pair>>

\* A statement of the call fails (the database is not reachable, say): the
\* call throws with what it has inserted left in place, as there is no
\* transaction around it, and routes.ts:365-367 logs the error.
SeedFails(i) ==
    /\ seed.pc[i] \in {"check", "user", "categories", "products", "customers"}
    /\ seed' = [seed EXCEPT !.pc[i] = "failed"]
    /\ UNCHANGED <<server, cart, sent, pair>>

NextSeed ==
    \/ \E i \in Starters : InitializeData(i)
    \/ \E i \in Starters : SeedCheck(i)
    \/ \E i \in Starters : SeedUser(i)
    \/ \E i \in Starters : SeedCategory(i)
    \/ \E i \in Starters : SeedProducts(i)
    \/ \E i \in Starters : SeedCustomers(i)
    \/ \E i \in Starters : SeedFails(i)
SpecSeed == Init /\ [][NextSeed]_vars

\* ------------------------------------------------------- point-of-sale cart
\* Products.tsx:241  the cart's total.
RECURSIVE CartTotal(_)
CartTotal(c) == IF c = <<>> THEN 0 ELSE Head(c).price * Head(c).quantity + CartTotal(Tail(c))

InCart(c, productId) == \E i \in DOMAIN c : c[i].productId = productId
\* Array.prototype.filter with item.productId !== productId.
RECURSIVE Without(_, _)
Without(c, productId) ==
    IF c = <<>> THEN <<>>
    ELSE IF Head(c).productId = productId THEN Without(Tail(c), productId)
    ELSE <<Head(c)>> \o Without(Tail(c), productId)

\* Products.tsx:243-265  handleAddToCart: one more of a product in the cart,
\* or a new entry of quantity 1 at the end.
HandleAddToCart(product) ==
    /\ \A i \in DOMAIN cart : cart[i].productId = product.id => cart[i].quantity < MaxQty
    /\ cart' = IF InCart(cart, product.id)
               THEN [i \in DOMAIN cart |->
                        IF cart[i].productId = product.id
                        THEN [cart[i] EXCEPT !.quantity = @ + 1] ELSE cart[i]]
               ELSE Append(cart, [productId |-> product.id, price |-> product.price.v,
                                  quantity |-> 1])
    /\ UNCHANGED <<server, apart, sent>>

\* A handler that stores the quantity it is given, whatever it is.
HandleUpdateCartItemQuantityStored(productId, newQuantity) ==
    /\ cart' = [i \in DOMAIN cart |->
                  IF cart[i].productId = productId
                  THEN [cart[i] EXCEPT !.quantity = newQuantity] ELSE cart[i]]
    /\ UNCHANGED <<server, apart, sent>>

\* Products.tsx:267-277  handleUpdateCartItemQuantity: the entry is removed
\* for a quantity of 0 or less and gets the quantity otherwise.
HandleUpdateCartItemQuantity(productId, newQuantity) ==
    /\ cart' = IF newQuantity <= 0 THEN Without(cart, productId)
               ELSE [i \in DOMAIN cart |->
                        IF cart[i].productId = productId
                        THEN [cart[i] EXCEPT !.quantity = newQuantity] ELSE cart[i]]
    /\ UNCHANGED <<server, apart, sent>>

\* Products.tsx:279-281  handleRemoveFromCart
HandleRemoveFromCart(productId) ==
    /\ cart' = Without(cart, productId)
    /\ UNCHANGED <<server, apart, sent>>

\* Products.tsx:288-318  handleCheckout: nothing is sent for an empty cart,
\* and the button is disabled while an order is being sent (493).
HandleCheckout ==
    /\ cart # <<>>
    /\ sent = <<>>
    /\ sent' = [i \in DOMAIN cart |->
                  [productId |-> cart[i].productId, quantity |-> cart[i].quantity,
                   unitPrice |-> cart[i].price]]
    /\ UNCHANGED <<server, apart, cart>>

\* Products.tsx:208-217  onSuccess: the cart is emptied.
CheckoutSucceeds ==
    /\ sent # <<>>
    /\ cart' = <<>>
    /\ sent' = <<>>
    /\ UNCHANGED <<server, apart>>

\* Products.tsx:218-224  onError: the cart is kept.
CheckoutFails ==
    /\ sent # <<>>
    /\ sent' = <<>>
    /\ UNCHANGED <<server, apart, cart>>

AddToCart == \E product \in CartProducts : HandleAddToCart(product)
UpdateCartItemQuantity ==
    \E productId \in ProductIds, q \in CartQuantities : HandleUpdateCartItemQuantity(productId, q)
RemoveFromCart == \E productId \in ProductIds : HandleRemoveFromCart(productId)
NextCart ==
    \/ AddToCart
    \/ UpdateCartItemQuantity
    \/ RemoveFromCart
    \/ HandleCheckout
    \/ CheckoutSucceeds
    \/ CheckoutFails
SpecCart == Init /\ [][NextCart]_vars

\* Orders of one line item created in any status the client knows, or in
\* none, and then set to any of these statuses.
StatusBodies ==
    { [order |-> [customerId |-> 1, status |-> st, total |-> Str(10)],
       items |-> [kind |-> "array",
                  list |-> <<[productId |-> 1, quantity |-> Num(3), unitPrice |-> 5,
                              orderId |-> 7]>>]] :
        st \in OrderStatuses \cup {"absent"} }
PostStatus == \E t \in Slots, body \in StatusBodies : PostOrders(t, body)
EditAnyStatus == \E id \in 1..MaxCalls, st \in OrderStatuses : UpdateOrderStatus(id, st)
NextStatus == PostStatus \/ Tx \/ Answer \/ EditAnyStatus
SpecStatus == Init /\ [][NextStatus]_vars

\* The storage interface on its own: createOrder is also called directly.
NextCore == Direct \/ Post \/ Tx \/ Answer \/ Admin
SpecCore == Init /\ [][NextCore]_vars

\* ------------------------------------------------------------------ claims
Step(t) == req'[t] # req[t]
\* createOrder returns in this step.
Completes(t) == req[t].outcome # "returned" /\ req'[t].outcome = "returned"
ItemsOf(rows, id) == {i \in DOMAIN rows : rows[i].orderId = id}

\* C1: atomicity of createOrder.  Every step of a call other than its
\* successful completion (the statements of a transaction in flight, the
\* failure of any of them, the rollback) leaves orders, line items and
\* products as they were, and the order id a failed call had drawn names no
\* order and no line item.
FailedLeavesNothing ==
    \A t \in Slots :
        req[t].outcome = "threw" =>
            /\ req[t].orderId \notin DOMAIN orders
            /\ ItemsOf(orderItems, req[t].orderId) = {}
C1_Atomicity ==
    /\ []FailedLeavesNothing
    /\ [][\A t \in Slots : (Step(t) /\ req'[t].outcome # "returned") => store' = store]_vars
\* A transaction failed at the stock update of its second line item.
C1_Witness ==
    \E t \in Slots : req[t].outcome = "threw" /\ req[t].at = "update" /\ req[t].idx = 2

\* C2: all-or-nothing.  In every state of the committed store, every line
\* item carries the id of a persisted order and every persisted order has at
\* least one line item.
C2_AllOrNothing ==
    /\ \A i \in DOMAIN orderItems : orderItems[i].orderId \in DOMAIN orders
    /\ \A o \in DOMAIN orders : ItemsOf(orderItems, o) # {}
\* An order is persisted while another call has inserted its rows and written
\* a stock, and has not yet committed.
C2_Witness ==
    /\ DOMAIN orders # {}
    /\ \E t \in Slots : req[t].pc = "select" /\ req[t].writes # NoWrites

\* C5: product stock is never negative.
C5_StockNonNegative == \A p \in DOMAIN products : products[p].stock >= 0

\* C7: a POST /api/orders whose items value is missing, not an array or an
\* empty array is answered 400 without calling createOrder, and changes no
\* order, line item, stock or id sequence.
RejectedKinds == {"missing", "object", "empty"}
C7_RejectedAnswer ==
    \A t \in Slots :
        (req[t].via = "api" /\ req[t].kind \in RejectedKinds) =>
            /\ req[t].pc = "done"
            /\ req[t].status = 400
            /\ req[t].outcome = "none"
            /\ req[t].orderId = 0
C7_Rejected ==
    /\ []C7_RejectedAnswer
    /\ [][\A t \in Slots :
            (Step(t) /\ req'[t].via = "api" /\ req'[t].kind \in RejectedKinds) =>
                UNCHANGED <<products, orders, orderItems, orderSeq, itemSeq>>]_vars
\* An empty items array was answered 400 with an order already in the store.
C7_Witness ==
    /\ DOMAIN orders # {}
    /\ \E t \in Slots : req[t].kind = "empty" /\ req[t].status = 400

\* The line items of order id, in the order of their ids, as createOrder was
\* given them.
RowSeq(rows, id) ==
    LET ids == ItemsOf(rows, id)
        first == CHOOSE i \in ids : \A j \in ids : i <= j IN
    IF ids = {} THEN <<>>
    ELSE [k \in 1..Cardinality(ids) |->
             [productId |-> rows[first + k - 1].productId,
              quantity |-> rows[first + k - 1].quantity,
              unitPrice |-> rows[first + k - 1].unitPrice]]

\* The quantity a list of line items asks of product p, and the stock of p
\* after the line items have been applied one after the other.
RECURSIVE QtySum(_, _)
QtySum(list, p) ==
    IF list = <<>> THEN 0
    ELSE (IF Head(list).productId = p THEN Head(list).quantity ELSE 0) + QtySum(Tail(list), p)
RECURSIVE StockAfter(_, _, _)
StockAfter(stock, list, p) ==
    IF list = <<>> THEN stock
    ELSE StockAfter(IF Head(list).productId = p THEN Max(0, stock - Head(list).quantity)
                    ELSE stock, Tail(list), p)
Refers(list, p) == \E k \in 1..Len(list) : list[k].productId = p

\* C3: after a successful createOrder that no other request interfered with,
\* the stock of every product its line items refer to is max(0, stock before
\* minus the sum of the quantities of the line items of that product).
C3_StockIsClampedSum ==
    [][\A t \in Slots :
         (Completes(t) /\ clean[t]) =>
             \A p \in DOMAIN products :
                 Refers(req'[t].items, p) =>
                     products'[p].stock
                         = Max(0, products[p].stock - QtySum(req'[t].items, p))]_vars

\* C4: two createOrder calls that each take 3 of product 1 (stock 5, no other
\* request touching it) leave its stock at 0.
TakesThree(o) ==
    RowSeq(orderItems, o) = <<[productId |-> 1, quantity |-> 3, unitPrice |-> 5]>>
C4_ScenarioD ==
    (/\ admin = 0
     /\ \A t \in Slots : ~InProgress(req[t])
     /\ DOMAIN orders = {1, 2}
     /\ \A o \in DOMAIN orders : TakesThree(o))
    => products[1].stock = 0

\* C6: oversell.  A call with a line item whose quantity exceeds the stock
\* its product has when the item is applied is not rejected: the update of
\* that line item sets the stock to 0 and the transaction goes on, and when
\* the call completes its order and all its line items are persisted with
\* the quantities asked for, the stock being what the line items applied one
\* after the other leave (0 when the overselling item is the product's last).
Oversells(stock, list, k) ==
    list[k].quantity > StockAfter(stock, SubSeq(list, 1, k - 1), list[k].productId)
LastOf(list, k) == \A j \in (k + 1)..Len(list) : list[j].productId # list[k].productId
C6_UpdateStep(t) ==
    LET r == req[t]
        p == r.items[r.idx].productId IN
    (r.pc = "update" /\ Step(t) /\ req'[t].outcome # "threw"
        /\ r.items[r.idx].quantity > r.read.stock) =>
            /\ req'[t].pc = "select"
            /\ req'[t].writes[p] = 0
C6_Completion(t) ==
    LET its == req'[t].items
        id == req'[t].orderId IN
    (Completes(t) /\ clean[t]) =>
        \A k \in 1..Len(its) :
            LET p == its[k].productId IN
            (p \in DOMAIN products /\ Oversells(products[p].stock, its, k)) =>
                /\ id \in DOMAIN orders'
                /\ RowSeq(orderItems', id) = its
                /\ products'[p].stock = StockAfter(products[p].stock, its, p)
                /\ LastOf(its, k) => products'[p].stock = 0
C6_Oversell == [][\A t \in Slots : C6_UpdateStep(t) /\ C6_Completion(t)]_vars
\* Two orders that took 3 each of product 1 are persisted, its stock of 5 is 0.
C6_Witness ==
    /\ admin = 0
    /\ DOMAIN orders = {1, 2}
    /\ \A o \in DOMAIN orders : TakesThree(o)
    /\ products[1].stock = 0

\* C8: createOrder itself, called with no line items, ends by throwing and
\* persists no order.
C8_CoreRejectsEmpty ==
    \A t \in Slots :
        (req[t].via = "core" /\ req[t].kind = "empty" /\ req[t].pc = "done") =>
            /\ req[t].outcome = "threw"
            /\ req[t].orderId \notin DOMAIN orders

\* C9: a successful createOrder adds exactly one order, under an id no order
\* had, and exactly len(items) line items, all carrying that id; the orders
\* and line items there were stay as they were.
C9_OneOrderAndItsItems ==
    [][\A t \in Slots :
         Completes(t) =>
             LET id == req'[t].orderId
                 new == DOMAIN orderItems' \ DOMAIN orderItems IN
             /\ id \notin DOMAIN orders
             /\ DOMAIN orders' = DOMAIN orders \cup {id}
             /\ \A o \in DOMAIN orders : orders'[o] = orders[o]
             /\ Cardinality(new) = Len(req'[t].items)
             /\ ItemsOf(orderItems', id) = new
             /\ \A i \in DOMAIN orderItems :
                    i \in DOMAIN orderItems' /\ orderItems'[i] = orderItems[i]]_vars
\* A call with two line items has returned and both are in the store.
C9_Witness ==
    \E t \in Slots :
        /\ req[t].outcome = "returned"
        /\ Len(req[t].items) = 2
        /\ Cardinality(ItemsOf(orderItems, req[t].orderId)) = 2

UnknownProduct(list) == \E k \in 1..Len(list) : list[k].productId \notin DOMAIN products
C11_InsertStep(t) ==
    (req[t].pc = "items" /\ Step(t) /\ itemSeq' # itemSeq /\ UnknownProduct(req[t].items)) =>
        req'[t].outcome # "threw"
C11_Completion(t) ==
    (Completes(t) /\ UnknownProduct(req'[t].items)) =>
        /\ req'[t].orderId \in DOMAIN orders'
        /\ RowSeq(orderItems', req'[t].orderId) = req'[t].items
        /\ clean[t] =>
               \A p \in DOMAIN products :
                   products'[p].stock = StockAfter(products[p].stock, req'[t].items, p)
C11_UnknownProductSkipped ==
    [][\A t \in Slots : C11_InsertStep(t) /\ C11_Completion(t)]_vars

\* C12: an order has status 'pending' when createOrder has created it,
\* whether the header carried a status or not.
C12_CreatedPending ==
    [][\A t \in Slots : Completes(t) => orders'[req'[t].orderId].status = "pending"]_vars

\* C13: the status of every persisted order is one of pending, processing,
\* completed, cancelled.
C13_StatusInEnum == \A o \in DOMAIN orders : orders[o].status \in OrderStatuses

\* C14: createOrder is reached from POST /api/orders only with line items of
\* positive quantity.
C14_PositiveQuantities ==
    \A t \in Slots :
        req[t].via = "api" =>
            \A k \in 1..Len(req[t].items) : req[t].items[k].quantity > 0

\* C15: a POST /api/orders whose header or any one item fails the schema is
\* answered 400 without calling createOrder, and changes no order, line
\* item, stock or id sequence.
SchemaFailures == {"badorder", "baditem", "baditems"}
C15_FailedAnswer ==
    \A t \in Slots :
        (req[t].via = "api" /\ req[t].kind \in SchemaFailures) =>
            /\ req[t].pc = "done"
            /\ req[t].status = 400
            /\ req[t].outcome = "none"
            /\ req[t].orderId = 0
C15_SchemaFailure ==
    /\ []C15_FailedAnswer
    /\ [][\A t \in Slots :
            (Step(t) /\ req'[t].via = "api" /\ req'[t].kind \in SchemaFailures) =>
                UNCHANGED <<products, orders, orderItems, orderSeq, itemSeq>>]_vars
\* A request with a valid and an invalid item was answered 400.
C15_Witness == \E t \in Slots : req[t].kind = "baditem" /\ req[t].status = 400

\* C16: the 201 answer of POST /api/orders carries the order row createOrder
\* persisted, under the id it was persisted under, and exactly the line items
\* in the store that carry this id, which are the line items of the request,
\* each under the id generated for it.
Answers(t) == req[t].status # 201 /\ req'[t].status = 201
C16_Response ==
    [][\A t \in Slots :
         Answers(t) =>
             LET r == req'[t]
                 id == r.resp.id
                 got == r.resp.items IN
             /\ id = r.orderId
             /\ id \in DOMAIN orders'
             /\ r.resp.order.customerId = orders'[id].customerId
             /\ r.resp.order.total = orders'[id].total
             /\ admin = 0 => r.resp.order = orders'[id]
             /\ DOMAIN got = ItemsOf(orderItems', id)
             /\ DOMAIN got = r.firstItem..(r.firstItem + Len(r.items) - 1)
             /\ \A i \in DOMAIN got : got[i] = orderItems'[i] /\ got[i].orderId = id
             /\ RowSeq(got, id) = r.items]_vars
\* The second of two orders was answered 201 with its one line item.
C16_Witness ==
    \E t \in Slots :
        /\ req[t].status = 201
        /\ req[t].resp.id = 2
        /\ DOMAIN orders = {1, 2}
        /\ DOMAIN req[t].resp.items = {2}

\* C17: the total of the order createOrder persists is the total it was
\* given, whatever the quantities and unit prices of the line items.
RECURSIVE LineSum(_)
LineSum(list) ==
    IF list = <<>> THEN 0
    ELSE Head(list).quantity * Head(list).unitPrice + LineSum(Tail(list))
C17_TotalAsSupplied ==
    [][\A t \in Slots :
         Completes(t) => orders'[req'[t].orderId].total = req'[t].order.total]_vars
\* An order is persisted with a total that is not the sum of its line items.
C17_Witness ==
    \E t \in Slots :
        /\ req[t].outcome = "returned"
        /\ req[t].orderId \in DOMAIN orders
        /\ orders[req[t].orderId].total # LineSum(req[t].items)

\* C18: a createOrder that fails under POST /api/orders is answered 500, and
\* the failing step leaves no order, line item or stock change of the request
\* in the store.
C18_FailedAnswer ==
    \A t \in Slots :
        (req[t].via = "api" /\ req[t].outcome = "threw") =>
            /\ req[t].pc = "done"
            /\ req[t].status = 500
            /\ req[t].orderId \notin DOMAIN orders
            /\ \A i \in DOMAIN orderItems : orderItems[i].orderId # req[t].orderId
C18_StorageFailure ==
    /\ []C18_FailedAnswer
    /\ [][\A t \in Slots :
            (req[t].outcome # "threw" /\ req'[t].outcome = "threw") =>
                /\ req'[t].status = 500
                /\ store' = store]_vars
\* The insert of the line items failed with an order already in the store.
C18_Witness ==
    /\ DOMAIN orders # {}
    /\ \E t \in Slots : req[t].outcome = "threw" /\ req[t].at = "items" /\ req[t].status = 500

\* C19: within one createOrder call the line items are stored in the order
\* of the list, and the stock adjustments are made one per line item in that
\* order: the call goes through the list by one position at a time, an
\* adjustment writes max(0, stock read - quantity) for the product of its
\* line item, the read of a product the call has adjusted before returns
\* what that adjustment wrote, and the call returns after the last position.
C19_TxStep(t) ==
    LET r == req[t]
        n == req'[t]
        p == r.items[r.idx].productId IN
    (InProgress(r) /\ InProgress(n) /\ Step(t)) =>
        /\ n.items = r.items
        /\ r.pc = "items" => n.pc = "select" /\ n.idx = 1 /\ n.writes = NoWrites
        /\ (r.pc = "select" /\ n.pc = "update") =>
               /\ n.idx = r.idx
               /\ n.writes = r.writes
               /\ p \in DOMAIN r.writes => n.read.stock = r.writes[p]
        /\ (r.pc = "select" /\ n.pc = "select") =>
               /\ n.idx = r.idx + 1
               /\ n.writes = r.writes
               /\ p \notin DOMAIN products
        /\ r.pc = "update" =>
               /\ n.pc = "select"
               /\ n.idx = r.idx + 1
               /\ n.writes = (p :> Max(0, r.read.stock - r.items[r.idx].quantity)) @@ r.writes
C19_Return(t) ==
    Completes(t) =>
        /\ RowSeq(orderItems', req'[t].orderId) = req'[t].items
        /\ backend = "db" => req[t].pc = "select" /\ req[t].idx = Len(req[t].items) + 1
        /\ clean[t] =>
               \A p \in DOMAIN products :
                   products'[p].stock = StockAfter(products[p].stock, req'[t].items, p)
C19_InListOrder == [][\A t \in Slots : C19_TxStep(t) /\ C19_Return(t)]_vars
\* A transaction has read, for its second line item, the stock its first
\* line item left of the same product.
C19_Witness ==
    \E t \in Slots :
        /\ req[t].pc = "update"
        /\ req[t].idx = 2
        /\ req[t].items[1].productId = req[t].items[2].productId
        /\ req[t].read.stock = req[t].writes[req[t].items[1].productId]
        /\ req[t].read.stock # products[req[t].items[1].productId].stock

\* C20: every createOrder call that has begun ends, by commit or by
\* rollback, also when two calls adjust the same two products in opposite
\* order and each holds the row it has updated.
C20_Terminates == \A t \in Slots : InProgress(req[t]) ~> ~InProgress(req[t])
\* One of two calls in a deadlock was rolled back and the other has returned.
C20_Witness ==
    \E t, u \in Slots :
        /\ req[t].outcome = "threw" /\ req[t].at = "deadlock"
        /\ req[u].outcome = "returned" /\ Len(req[u].items) = 2

\* C21: frame of createOrder.  A step of a createOrder call changes nothing
\* but the order and the line items it adds and the stock of the products its
\* line items refer to: the set of products, every product's price, the
\* stock of the other products, the orders and line items there were, the
\* product ids handed out and the state of the other requests stay.
C21_Frame ==
    [][\A t \in Slots :
         Step(t) =>
             /\ DOMAIN products' = DOMAIN products
             /\ \A p \in DOMAIN products :
                    /\ products'[p].price = products[p].price
                    /\ ~Refers(req'[t].items, p) => products'[p] = products[p]
             /\ \A o \in DOMAIN orders : o \in DOMAIN orders' /\ orders'[o] = orders[o]
             /\ \A i \in DOMAIN orderItems :
                    i \in DOMAIN orderItems' /\ orderItems'[i] = orderItems[i]
             /\ DOMAIN orders' \ DOMAIN orders \subseteq {req'[t].orderId}
             /\ \A i \in DOMAIN orderItems' \ DOMAIN orderItems :
                    orderItems'[i].orderId = req'[t].orderId
             /\ \A u \in Slots \ {t} : req'[u] = req[u]
             /\ UNCHANGED <<productSeq, stockOp, statusOp, cart, sent>>]_vars
\* A call that took of product 1 has returned while product 2 exists.
C21_Witness ==
    /\ DOMAIN products = {1, 2}
    /\ \E t \in Slots :
           /\ req[t].outcome = "returned"
           /\ Refers(req[t].items, 1) /\ ~Refers(req[t].items, 2)
           /\ products[1].stock = 2

\* C22: line items are immutable.  No step changes the productId, quantity,
\* unitPrice or orderId of a persisted line item or removes it.
C22_ItemsImmutable ==
    [][\A i \in DOMAIN orderItems :
         i \in DOMAIN orderItems' /\ orderItems'[i] = orderItems[i]]_vars
\* Two orders hold a line item each of product 1, whose price has been changed.
C22_Witness ==
    /\ DOMAIN orderItems = {1, 2}
    /\ orderItems[1].orderId # orderItems[2].orderId
    /\ \A i \in DOMAIN orderItems : orderItems[i].productId = 1 /\ orderItems[i].unitPrice = 5
    /\ 1 \in DOMAIN products
    /\ products[1].price = 6

\* C23: status transitions are unconstrained.  A PUT /api/orders/:id/status
\* that names a persisted order and any of the four statuses is answered 200
\* and leaves the order in that status, whatever status it had.
C23_AnyTransition ==
    [][statusOp' # statusOp =>
         LET id == statusOp'.id IN
         id \in DOMAIN orders =>
             /\ statusOp'.code = 200
             /\ id \in DOMAIN orders'
             /\ orders'[id].status = statusOp'.status]_vars
\* An order created as cancelled has been set to pending.
C23_Witness ==
    \E t \in Slots :
        /\ req[t].outcome = "returned"
        /\ req[t].order.status = "cancelled"
        /\ statusOp.id = req[t].orderId
        /\ statusOp.status = "pending"
        /\ statusOp.code = 200
        /\ orders[req[t].orderId].status = "pending"

\* C24: orders are never deleted.  Across every step, each persisted order is
\* still persisted under the same id with the same customerId and total.
C24_OrdersKept ==
    [][\A o \in DOMAIN orders :
         /\ o \in DOMAIN orders'
         /\ orders'[o].customerId = orders[o].customerId
         /\ orders'[o].total = orders[o].total]_vars
\* Two orders are persisted after the status of one of them has been set.
C24_Witness ==
    /\ DOMAIN orders = {1, 2}
    /\ statusOp.code = 200
    /\ orders[statusOp.id].status = statusOp.status
    /\ \A o \in DOMAIN orders : orders[o].customerId = 1 /\ orders[o].total = 10

\* C26: updateOrderStatus changes only the status of the addressed order.  The
\* other fields of that order, every other order, the line items and the
\* products are unchanged; for an id of no order the answer is 404 and
\* nothing is changed.
C26_StatusFrame ==
    [][statusOp' # statusOp =>
         /\ DOMAIN orders' = DOMAIN orders
         /\ \A o \in DOMAIN orders :
                IF o = statusOp'.id
                THEN /\ orders'[o] = [orders[o] EXCEPT !.status = statusOp'.status]
                     /\ statusOp'.code = 200
                ELSE orders'[o] = orders[o]
         /\ statusOp'.id \notin DOMAIN orders => statusOp'.code = 404 /\ orders' = orders
         /\ UNCHANGED <<products, productSeq, orderItems, orderSeq, itemSeq, req, stockOp,
                        cart, sent>>]_vars
\* The status of the second of two orders has been set and the first order
\* has the status it was created with.
C26_Witness ==
    /\ DOMAIN orders = {1, 2}
    /\ statusOp.id = 2 /\ statusOp.code = 200 /\ statusOp.status = "completed"
    /\ orders[2].status = "completed"
    /\ orders[1].status = "shipped"

\* C27: a stock adjustment concurrent with createOrder loses no update.  Once
\* one createOrder of positive quantities has returned and one
\* updateProductStock on product 1 has finished, and nothing else has run,
\* the stock of product 1 is what the two give when applied one after the
\* other, in one of the two orders.
C27_Start == (CHOOSE f \in InitProducts : TRUE)[1].stock
C27_NoLostUpdate ==
    \A t \in Slots :
        (/\ calls = 1
         /\ req[t].outcome = "returned"
         /\ \A k \in 1..Len(req[t].items) : req[t].items[k].quantity > 0
         /\ stockOp.pc = "done"
         /\ stockOp.id = 1)
        => products[1].stock \in
               { StockSum(StockAfter(C27_Start, req[t].items, 1), stockOp.delta),
                 StockAfter(StockSum(C27_Start, stockOp.delta), req[t].items, 1) }

\* C29: referential integrity of line items.  In every state the productId
\* of every persisted line item is the id of an existing product.
C29_ItemsReferToProducts ==
    \A i \in DOMAIN orderItems : orderItems[i].productId \in DOMAIN products

\* C30: the cart of the point-of-sale page holds at most one entry per
\* product and every entry has a quantity of at least 1, so the line items a
\* checkout sends all have a positive quantity.
C30_CartInvariant ==
    /\ \A i, j \in DOMAIN cart : cart[i].productId = cart[j].productId => i = j
    /\ \A i \in DOMAIN cart : cart[i].quantity >= 1
    /\ \A k \in DOMAIN sent : sent[k].quantity >= 1
\* Two line items have been sent, and since then one product has been taken
\* out of the cart and the other one set to another quantity.
C30_Witness ==
    /\ Len(sent) = 2
    /\ sent[1].quantity = 1 /\ sent[2].quantity = MaxQty
    /\ Len(cart) = 1
    /\ cart[1].productId = sent[2].productId
    /\ cart[1].quantity = 2

\* C25: initializeData is safe to call multiple times.  No call leaves more
\* than the sample rows in users, categories, products or customers, and once
\* a call has returned and no call is running the sample data is complete.
SeedComplete ==
    /\ seed.users = SampleUsers
    /\ seed.categories = SampleCategories
    /\ seed.products = SampleProducts
    /\ seed.customers = SampleCustomers
C25_NoDuplicates ==
    /\ seed.users <= SampleUsers
    /\ seed.categories <= SampleCategories
    /\ seed.products <= SampleProducts
    /\ seed.customers <= SampleCustomers
C25_SafeToRepeat ==
    /\ C25_NoDuplicates
    /\ ((\A i \in Starters : seed.pc[i] \in {"idle", "done", "failed"})
          /\ (\E i \in Starters : seed.pc[i] = "done"))
        => SeedComplete

\* C28: MemStorage and DatabaseStorage are observationally equivalent.  After
\* the same calls of createOrder, updateOrderStatus, updateProductStock and
\* deleteProduct on both, the last call has succeeded on both or failed on
\* both, and the two hold the same orders, line items and product stocks.
Stocks(st) == [p \in DOMAIN st.products |-> st.products[p].stock]
C28_Equivalent ==
    /\ pair.out.mem = pair.out.db
    /\ pair.mem.orders = pair.db.orders
    /\ pair.mem.orderItems = pair.db.orderItems
    /\ Stocks(pair.mem) = Stocks(pair.db)

====
